---------------------------- MODULE Spec2Model ----------------------------
(***************************************************************************)
(* Tag rules of commitizen (src/commitizen/tags.py): the compilation of    *)
(* tag formats into regular expressions, the classification of tags, the   *)
(* extraction of versions, the search of a version in a text, the          *)
(* normalisation of a version into a tag and the lookup of a tag, with     *)
(* the Markdown title parser that calls the search.                        *)
(*                                                                         *)
(* A string is a sequence of one-character strings.  A regular expression  *)
(* is a sequence of nodes; matching computes the ordered sequence of the   *)
(* outcomes of Python's backtracking matcher, most preferred first, so     *)
(* that the match `re` reports is the head of that sequence.               *)
(***************************************************************************)
EXTENDS Naturals, Sequences, FiniteSets, TLC

(***************************************************************************)
(* Characters and strings                                                  *)
(***************************************************************************)
DigitSeq == <<"0", "1", "2", "3", "4", "5", "6", "7", "8", "9">>

\* \d and [0-9]
Digits == {DigitSeq[i] : i \in 1..10}

\* [a-z]
Lower == {"a", "b", "c", "d", "e", "f", "g", "h", "i", "j", "k", "l", "m",
          "n", "o", "p", "q", "r", "s", "t", "u", "v", "w", "x", "y", "z"}

\* the characters of a character class, by the class's name
ClassChars(cls) ==
    CASE cls = "d" -> Digits
      [] cls = "a" -> Lower
      [] cls = "#" -> {"#"}

\* s[i:j] of Python, 0 <= i <= j <= len(s)
Slice(s, i, j) == SubSeq(s, i + 1, j)

\* number of characters of class cls that s holds from offset i on
RECURSIVE RunLen(_, _, _)
RunLen(s, i, cls) ==
    IF i < Len(s) /\ s[i + 1] \in ClassChars(cls)
    THEN 1 + RunLen(s, i + 1, cls)
    ELSE 0

(***************************************************************************)
(* Regular expressions                                                     *)
(***************************************************************************)
Node(k, c, name, sub) == [k |-> k, c |-> c, name |-> name, sub |-> sub]

\* a character of a format that no replacement has touched yet
Raw(c) == Node("raw", c, "", <<>>)
\* a literal character
Chr(c) == Node("chr", c, "", <<>>)
\* .
AnyChr == Node("any", "", "", <<>>)
\* $
Eol == Node("eol", "", "", <<>>)
\* [cls]+ (greedy)
Plus(cls) == Node("plus", cls, "", <<>>)
\* .* (greedy)
Star == Node("star", "", "", <<>>)
\* (?:.*?)
Lazy == Node("lazy", "", "", <<>>)
\* (?:sub)?
Opt(sub) == Node("opt", "", "", sub)
\* (?P<name>sub)
Grp(name, sub) == Node("group", "", name, sub)

GroupNames == {"version", "major", "minor", "patch", "prerelease",
               "devrelease", "level", "title"}

\* a group that took no part in the match (None in groupdict)
NoGroup == [on |-> FALSE, txt |-> <<>>]

NoGroups == [n \in GroupNames |-> NoGroup]

\* the named groups a regular expression defines (the keys of groupdict)
RECURSIVE NamesOf(_)
NamesOf(re) ==
    IF re = <<>> THEN {}
    ELSE LET n == Head(re) IN
         (IF n.k = "group" THEN {n.name} ELSE {})
         \cup NamesOf(n.sub) \cup NamesOf(Tail(re))

Outcome(e, g) == [end |-> e, groups |-> g]

\* The outcomes of matching re against s from offset i, in the order in
\* which Python's backtracking matcher tries them.
RECURSIVE MatchSeq(_, _, _, _), MatchNode(_, _, _, _), Continue(_, _, _),
          Capture(_, _, _, _)
MatchSeq(re, s, i, g) ==
    IF re = <<>> THEN <<Outcome(i, g)>>
    ELSE Continue(MatchNode(Head(re), s, i, g), Tail(re), s)

Continue(outs, rest, s) ==
    IF outs = <<>> THEN <<>>
    ELSE MatchSeq(rest, s, Head(outs).end, Head(outs).groups)
         \o Continue(Tail(outs), rest, s)

Capture(outs, name, s, i) ==
    IF outs = <<>> THEN <<>>
    ELSE LET o == Head(outs) IN
         <<Outcome(o.end, [o.groups EXCEPT
                ![name] = [on |-> TRUE, txt |-> Slice(s, i, o.end)]])>>
         \o Capture(Tail(outs), name, s, i)

MatchNode(n, s, i, g) ==
    CASE n.k = "chr" ->
           IF i < Len(s) /\ s[i + 1] = n.c THEN <<Outcome(i + 1, g)>> ELSE <<>>
      [] n.k = "any" ->
           IF i < Len(s) THEN <<Outcome(i + 1, g)>> ELSE <<>>
      [] n.k = "eol" ->
           IF i = Len(s) THEN <<Outcome(i, g)>> ELSE <<>>
      [] n.k = "plus" ->
           LET run == RunLen(s, i, n.c)
           IN  [j \in 1..run |-> Outcome(i + run + 1 - j, g)]
      [] n.k = "star" ->
           [j \in 1..(Len(s) - i + 1) |-> Outcome(Len(s) + 1 - j, g)]
      [] n.k = "lazy" ->
           [j \in 1..(Len(s) - i + 1) |-> Outcome(i + j - 1, g)]
      [] n.k = "opt" ->
           MatchSeq(n.sub, s, i, g) \o <<Outcome(i, g)>>
      [] n.k = "group" ->
           Capture(MatchSeq(n.sub, s, i, g), n.name, s, i)

\* a match object, or NoMatch for None
NoMatch == [found |-> FALSE, start |-> 0, end |-> 0, groups |-> NoGroups,
            names |-> {}]

MatchAt(re, s, i, o) ==
    [found |-> TRUE, start |-> i, end |-> o.end, groups |-> o.groups,
     names |-> NamesOf(re)]

\* the match the matcher reports at offset i: the first of the outcomes
FirstOf(re, s, i, outs) ==
    IF outs = <<>> THEN NoMatch ELSE MatchAt(re, s, i, Head(outs))

\* regex.match(s): the pattern matches a prefix of s
ReMatch(re, s) == FirstOf(re, s, 0, MatchSeq(re, s, 0, NoGroups))

\* regex.fullmatch(s): the pattern matches the whole of s
ReFullMatch(re, s) ==
    FirstOf(re, s, 0, SelectSeq(MatchSeq(re, s, 0, NoGroups),
                                LAMBDA o : o.end = Len(s)))

\* the leftmost match that starts at offset i or later
RECURSIVE SearchFrom(_, _, _), SearchOn(_, _, _, _)
SearchOn(re, s, i, outs) ==
    IF outs = <<>> THEN SearchFrom(re, s, i + 1)
    ELSE MatchAt(re, s, i, Head(outs))

SearchFrom(re, s, i) ==
    IF i > Len(s) THEN NoMatch
    ELSE SearchOn(re, s, i, MatchSeq(re, s, i, NoGroups))

\* list(regex.finditer(s)) from offset i on: the non-overlapping matches,
\* left to right; after an empty match the scan moves on by one character
RECURSIVE FindIter(_, _, _), FindMore(_, _, _)
FindMore(re, s, m) ==
    IF ~m.found THEN <<>>
    ELSE <<m>> \o FindIter(re, s, IF m.end = m.start THEN m.end + 1
                                  ELSE m.end)

FindIter(re, s, i) == FindMore(re, s, SearchFrom(re, s, i))

\* match.group(0)
Group0(s, m) == Slice(s, m.start, m.end)


(***************************************************************************)
(* The version scheme (commitizen.version_schemes) and the placeholder     *)
(* table (commitizen.defaults.get_tag_regexes)                             *)
(***************************************************************************)
\* one field of the scheme's pattern, as a named group or bare
Part(named, name, sub) == IF named THEN <<Grp(name, sub)>> ELSE sub

\* release of one to three numbers, "-" and a prerelease, a dev release
VersionBody(named) ==
    Part(named, "major", <<Plus("d")>>)
    \o <<Opt(<<Chr(".")>> \o Part(named, "minor", <<Plus("d")>>)
             \o <<Opt(<<Chr(".")>> \o Part(named, "patch", <<Plus("d")>>))>>)>>
    \o <<Opt(<<Chr("-")>>
             \o Part(named, "prerelease", <<Plus("a"), Plus("d")>>))>>
    \o <<Opt(Part(named, "devrelease",
                  <<Chr("."), Chr("d"), Chr("e"), Chr("v"), Plus("d")>>))>>

\* scheme.parser.pattern
parser_pattern == <<Grp("version", VersionBody(FALSE))>>

\* int(digits)
RECURSIVE ToNat(_)
ToNat(ds) ==
    IF ds = <<>> THEN 0
    ELSE LET d == CHOOSE i \in 0..9 : DigitSeq[i + 1] = ds[Len(ds)]
         IN  10 * ToNat(SubSeq(ds, 1, Len(ds) - 1)) + d

\* str(n)
RECURSIVE ToStr(_)
ToStr(n) ==
    IF n < 10 THEN <<DigitSeq[n + 1]>>
    ELSE ToStr(n \div 10) \o <<DigitSeq[(n % 10) + 1]>>

Ok(v) == [status |-> "ok", val |-> v]
Raise(e) == [status |-> e, val |-> <<>>]

\* the number of a release field, when the string has the field
Field(g) == IF g.on THEN <<ToNat(g.txt)>> ELSE <<>>

\* the Version of a string the scheme's pattern has matched
VersionOf(m) ==
    IF ~m.found THEN Raise("InvalidVersion")
    ELSE Ok([release |-> Field(m.groups["major"]) \o Field(m.groups["minor"])
                         \o Field(m.groups["patch"]),
             prerelease |-> m.groups["prerelease"].txt,
             devrelease |-> m.groups["devrelease"].txt])

\* scheme(version_string): a Version, or InvalidVersion
scheme(str) == VersionOf(ReFullMatch(VersionBody(TRUE), str))

\* Version.release, the triple (major, minor, patch)
release(v) ==
    [i \in 1..3 |-> IF i <= Len(v.release) THEN v.release[i] ELSE 0]

\* Version.is_prerelease
is_prerelease(v) == v.prerelease # <<>> \/ v.devrelease # <<>>

\* str(version)
RECURSIVE JoinDots(_)
JoinDots(ns) ==
    IF Len(ns) = 1 THEN ToStr(ns[1])
    ELSE ToStr(ns[1]) \o <<".">> \o JoinDots(Tail(ns))

version_str(v) ==
    JoinDots(v.release)
    \o (IF v.prerelease # <<>> THEN <<"-">> \o v.prerelease ELSE <<>>)
    \o v.devrelease

\* the placeholder names, spelt out
W_version == <<"v", "e", "r", "s", "i", "o", "n">>
W_major == <<"m", "a", "j", "o", "r">>
W_minor == <<"m", "i", "n", "o", "r">>
W_patch == <<"p", "a", "t", "c", "h">>
W_prerelease == <<"p", "r", "e", "r", "e", "l", "e", "a", "s", "e">>
W_devrelease == <<"d", "e", "v", "r", "e", "l", "e", "a", "s", "e">>

\* get_tag_regexes(version_regex): placeholder -> regular expression, in
\* the order of the dictionary
get_tag_regexes(version_regex) ==
    << [pattern |-> <<"$">> \o W_version, regex |-> version_regex],
       [pattern |-> <<"$">> \o W_major,
        regex   |-> <<Grp("major", <<Plus("d")>>)>>],
       [pattern |-> <<"$">> \o W_minor,
        regex   |-> <<Grp("minor", <<Plus("d")>>)>>],
       [pattern |-> <<"$">> \o W_patch,
        regex   |-> <<Grp("patch", <<Plus("d")>>)>>],
       [pattern |-> <<"$">> \o W_prerelease,
        regex   |-> <<Opt(<<Grp("prerelease", <<Plus("a"), Plus("d")>>)>>)>>],
       [pattern |-> <<"$">> \o W_devrelease,
        regex   |-> <<Opt(<<Grp("devrelease",
                     <<Chr("."), Chr("d"), Chr("e"), Chr("v"), Plus("d")>>)>>)>>]
    >>

(***************************************************************************)
(* TagRules: compilation of the formats                                    *)
(***************************************************************************)
\* the format as the regex source it starts as: every character untouched
Lift(str) == [i \in 1..Len(str) |-> Raw(str[i])]

\* whether the characters of old stand, untouched, at offset i of src
StandsAt(src, i, old) ==
    /\ i + Len(old) <= Len(src)
    /\ \A j \in 1..Len(old) : src[i + j].k = "raw" /\ src[i + j].c = old[j]

\* src.replace(old, new): every occurrence, left to right, not overlapping
RECURSIVE Replace(_, _, _, _)
Replace(src, i, old, new) ==
    IF i >= Len(src) THEN <<>>
    ELSE IF StandsAt(src, i, old)
         THEN new \o Replace(src, i + Len(old), old, new)
         ELSE <<src[i + 1]>> \o Replace(src, i + 1, old, new)

\* the loop of _format_regex over the placeholder table
RECURSIVE ReplaceAll(_, _)
ReplaceAll(src, table) ==
    IF table = <<>> THEN src
    ELSE ReplaceAll(Replace(src, 0, Head(table).pattern, Head(table).regex),
                    Tail(table))

\* TagRules._format_regex
format_regex(tag_pattern, star) ==
    LET tag_regexes == get_tag_regexes(parser_pattern)
        start == IF star THEN Replace(Lift(tag_pattern), 0, <<"*">>, <<Lazy>>)
                 ELSE Lift(tag_pattern)
    IN  ReplaceAll(start, tag_regexes)

\* re.compile: what a character left in the source means to the matcher
re_compile(src) ==
    [i \in 1..Len(src) |->
        IF src[i].k # "raw" THEN src[i]
        ELSE IF src[i].c = "." THEN AnyChr
        ELSE IF src[i].c = "$" THEN Eol
        ELSE Chr(src[i].c)]

\* TagRules.version_regexes, as the cached property computes it on its
\* first use
version_regexes(self) ==
    LET tag_formats == <<self.tag_format>> \o self.legacy_tag_formats
    IN  [i \in 1..Len(tag_formats) |->
            re_compile(format_regex(tag_formats[i], FALSE))]

\* TagRules.ignored_regexes, as the cached property computes it on its
\* first use
ignored_regexes(self) ==
    [i \in 1..Len(self.ignored_tag_formats) |->
        re_compile(format_regex(self.ignored_tag_formats[i], TRUE))]

(***************************************************************************)
(* TagRules: the operations                                                *)
(***************************************************************************)
\* is_version_tag that forgets the legacy formats
is_version_tag_primary(self, tag) ==
    ReMatch(self.version_regexes[1], tag).found

\* TagRules.is_version_tag
is_version_tag(self, tag) ==
    \E i \in DOMAIN self.version_regexes :
        ReMatch(self.version_regexes[i], tag).found

\* TagRules.is_ignored_tag
is_ignored_tag(self, tag) ==
    \E i \in DOMAIN self.ignored_regexes :
        ReMatch(self.ignored_regexes[i], tag).found

\* _select_tag that keeps the ignored tags too
select_tag_keeps_ignored(self, tag, warn) ==
    IF is_version_tag(self, tag) \/ is_ignored_tag(self, tag)
    THEN [keep |-> TRUE, warned |-> <<>>]
    ELSE IF warn
         THEN [keep |-> FALSE, warned |-> <<tag>>]
         ELSE [keep |-> FALSE, warned |-> <<>>]

\* _select_tag that warns of the ignored tags too
select_tag_warns_ignored(self, tag, warn) ==
    IF is_version_tag(self, tag)
    THEN [keep |-> TRUE, warned |-> <<>>]
    ELSE IF warn
         THEN [keep |-> FALSE, warned |-> <<tag>>]
         ELSE [keep |-> FALSE, warned |-> <<>>]

\* TagRules._select_tag: whether the tag is kept, and what it writes to
\* the warning channel
select_tag(self, tag, warn) ==
    IF is_version_tag(self, tag)
    THEN [keep |-> TRUE, warned |-> <<>>]
    ELSE IF warn /\ ~is_ignored_tag(self, tag)
         THEN [keep |-> FALSE, warned |-> <<tag>>]
         ELSE [keep |-> FALSE, warned |-> <<>>]

\* parts.get(name): the text of the group, empty for a group the pattern
\* lacks or that took no part
PartGet(m, name) == IF name \in m.names THEN m.groups[name].txt ELSE <<>>

\* version = f"{version}{sep}{part}" when the part is there and not empty
WithPart(version, sep, part) ==
    IF part # <<>> THEN version \o sep \o part ELSE version

\* TagRules._version_string
version_string(m) ==
    IF "version" \in m.names THEN Ok(m.groups["version"].txt)
    ELSE IF "major" \notin m.names THEN Raise("KeyError")
    ELSE Ok(WithPart(WithPart(WithPart(WithPart(m.groups["major"].txt,
                <<".">>, PartGet(m, "minor")),
                <<".">>, PartGet(m, "patch")),
                <<"-">>, PartGet(m, "prerelease")),
                <<>>, PartGet(m, "devrelease")))

\* next(candidates, None) that takes the last candidate, not the first
RECURSIVE NextFoundLast(_)
NextFoundLast(ms) ==
    IF ms = <<>> THEN NoMatch
    ELSE IF ms[Len(ms)].found THEN ms[Len(ms)]
    ELSE NextFoundLast(SubSeq(ms, 1, Len(ms) - 1))

\* the first element of a sequence of matches that is one, else NoMatch:
\* next(candidates, None)
RECURSIVE NextFound(_)
NextFound(ms) ==
    IF ms = <<>> THEN NoMatch
    ELSE IF Head(ms).found THEN Head(ms)
    ELSE NextFound(Tail(ms))

\* the candidates of extract_version: the full match of every regex, in
\* the order of version_regexes
FullMatches(regexes, name) ==
    [i \in DOMAIN regexes |-> ReFullMatch(regexes[i], name)]

\* self.scheme(version) of a version string that was assembled
SchemeOf(version) ==
    IF version.status # "ok" THEN version ELSE scheme(version.val)

\* extract_version, from the candidate next() gave
ExtractFrom(m) ==
    IF ~m.found THEN Raise("InvalidVersion")
    ELSE SchemeOf(version_string(m))

\* TagRules.extract_version
extract_version(self, tag) ==
    ExtractFrom(NextFound(FullMatches(self.version_regexes, tag)))

\* include_in_changelog that drops every prerelease, merge_prereleases or not
IncludeFromAnyPrerelease(self, version) ==
    IF version.status = "InvalidVersion" THEN Ok(FALSE)
    ELSE IF version.status # "ok" THEN version
    ELSE IF is_prerelease(version.val)
         THEN Ok(FALSE)
         ELSE Ok(TRUE)

\* include_in_changelog, from what extract_version returned or raised
IncludeFrom(self, version) ==
    IF version.status = "InvalidVersion" THEN Ok(FALSE)
    ELSE IF version.status # "ok" THEN version
    ELSE IF self.merge_prereleases /\ is_prerelease(version.val)
         THEN Ok(FALSE)
         ELSE Ok(TRUE)

\* TagRules.include_in_changelog
include_in_changelog(self, tag) ==
    IncludeFrom(self, extract_version(self, tag))

\* next(candidates, []) of search_version: the matches of the first regex,
\* in the order of version_regexes, that matches somewhere in txt
RECURSIVE NextMatches(_)
NextMatches(lists) ==
    IF lists = <<>> THEN <<>>
    ELSE IF Head(lists) # <<>> THEN Head(lists)
    ELSE NextMatches(Tail(lists))

\* the candidates of search_version: the matches of every regex in txt
AllMatches(regexes, txt) ==
    [i \in DOMAIN regexes |-> FindIter(regexes[i], txt, 0)]

\* the value search_version returns for None
None == [status |-> "None", val |-> <<>>]

\* search_version that assembles the version as _version_string does,
\* leaving out the parts the match lacks
SearchSelectedTolerant(txt, match) ==
    IF version_string(match).status # "ok" THEN None
    ELSE Ok(<<version_string(match).val, Group0(txt, match)>>)

\* search_version, from the selected match
SearchSelected(txt, match) ==
    IF "version" \in match.names
    THEN Ok(<<match.groups["version"].txt, Group0(txt, match)>>)
    ELSE IF ~({"major", "minor", "patch"} \subseteq match.names)
    THEN None
    ELSE Ok(<<WithPart(WithPart(match.groups["major"].txt \o <<".">>
                                \o match.groups["minor"].txt \o <<".">>
                                \o match.groups["patch"].txt,
                       <<"-">>, PartGet(match, "prerelease")),
                       <<>>, PartGet(match, "devrelease")),
              Group0(txt, match)>>)

\* search_version that selects the first match whatever last says
SearchInFirst(txt, last, matches) ==
    IF matches = <<>> THEN None
    ELSE SearchSelected(txt, matches[1])

\* search_version, from the matches of the winning regex
SearchIn(txt, last, matches) ==
    IF matches = <<>> THEN None
    ELSE SearchSelected(txt, matches[IF last THEN Len(matches) ELSE 1])

\* TagRules.search_version
search_version(self, txt, last) ==
    SearchIn(txt, last, NextMatches(AllMatches(self.version_regexes, txt)))

\* the characters of a Template identifier, [_a-z][_a-z0-9]*
IdStart == Lower \cup {"_"}
IdChars == IdStart \cup Digits

RECURSIVE IdLen(_, _)
IdLen(tpl, i) ==
    IF i < Len(tpl) /\ tpl[i + 1] \in IdChars THEN 1 + IdLen(tpl, i + 1) ELSE 0

\* Template(tpl).safe_substitute(**kw) from offset i on: "$$" is "$",
\* "$name" and "${name}" are kw[name] when kw has the name, and anything
\* else stays as written
RECURSIVE safe_substitute(_, _, _)
safe_substitute(tpl, i, kw) ==
    IF i >= Len(tpl) THEN <<>>
    ELSE IF tpl[i + 1] # "$" \/ i + 1 = Len(tpl)
    THEN <<tpl[i + 1]>> \o safe_substitute(tpl, i + 1, kw)
    ELSE IF tpl[i + 2] = "$"
    THEN <<"$">> \o safe_substitute(tpl, i + 2, kw)
    ELSE IF tpl[i + 2] \in IdStart
    THEN LET n == IdLen(tpl, i + 1)
             name == Slice(tpl, i + 1, i + 1 + n)
         IN  (IF name \in DOMAIN kw THEN kw[name]
              ELSE Slice(tpl, i, i + 1 + n))
             \o safe_substitute(tpl, i + 1 + n, kw)
    ELSE IF /\ tpl[i + 2] = "{"
            /\ i + 2 < Len(tpl)
            /\ tpl[i + 3] \in IdStart
            /\ i + 2 + IdLen(tpl, i + 2) < Len(tpl)
            /\ tpl[i + 3 + IdLen(tpl, i + 2)] = "}"
    THEN LET n == IdLen(tpl, i + 2)
             name == Slice(tpl, i + 2, i + 2 + n)
         IN  (IF name \in DOMAIN kw THEN kw[name]
              ELSE Slice(tpl, i, i + 3 + n))
             \o safe_substitute(tpl, i + 3 + n, kw)
    ELSE <<"$">> \o safe_substitute(tpl, i + 1, kw)

\* TagRules.normalize_tag for a Version; an empty tag_format stands for
\* None and, like it, gives way to the primary format
normalize_version(self, version, tag_format) ==
    LET fmt == IF tag_format # <<>> THEN tag_format ELSE self.tag_format
        rel == release(version)
        kw == (W_version :> version_str(version))
              @@ (W_major :> ToStr(rel[1]))
              @@ (W_minor :> ToStr(rel[2]))
              @@ (W_patch :> ToStr(rel[3]))
              @@ (W_prerelease :> version.prerelease)
    IN  safe_substitute(fmt, 0, kw)

\* normalize_tag, from what self.scheme(version) returned or raised
NormalizeParsed(self, v, tag_format) ==
    IF v.status # "ok" THEN v
    ELSE Ok(normalize_version(self, v.val, tag_format))

\* TagRules.normalize_tag for a version string
normalize_tag(self, version, tag_format) ==
    NormalizeParsed(self, scheme(version), tag_format)

\* possible_tags that holds the primary format's tag alone
possible_tags_primary(self, version) ==
    <<normalize_version(self, version, self.tag_format)>>

\* possible_tags of find_tag_for
possible_tags(self, version) ==
    [i \in 1..(1 + Len(self.legacy_tag_formats)) |->
        normalize_version(self, version,
                          (<<self.tag_format>> \o self.legacy_tag_formats)[i])]

\* next(candidates, None) of find_tag_for
NextTag(candidates) ==
    IF candidates = <<>> THEN None ELSE Ok(Head(candidates))

\* find_tag_for, from what self.scheme(version) returned or raised
FindParsed(self, tags, v) ==
    IF v.status # "ok" THEN v
    ELSE NextTag(SelectSeq(tags, LAMBDA t :
             \E i \in DOMAIN possible_tags(self, v.val) :
                 t = possible_tags(self, v.val)[i]))

\* TagRules.find_tag_for
find_tag_for(self, tags, version) == FindParsed(self, tags, scheme(version))

(***************************************************************************)
(* Markdown (changelog_formats/markdown.py)                                *)
(***************************************************************************)
\* Markdown.RE_TITLE
RE_TITLE == <<Grp("level", <<Plus("#")>>), Chr(" "), Grp("title", <<Star>>),
              Eol>>

\* parse_version_from_title, from the match of RE_TITLE
ParseTitle(self, m) ==
    IF ~m.found THEN None
    ELSE search_version(self, m.groups["title"].txt, FALSE)

\* Markdown.parse_version_from_title
parse_version_from_title(self, line) == ParseTitle(self, ReMatch(RE_TITLE, line))

(***************************************************************************)
(* Bounds and inputs                                                       *)
(***************************************************************************)
\* longest tag or text of the exhaustive part of the inputs
MaxLen == 3
\* longest list of tags handed to get_version_tags and find_tag_for
MaxTags == 2

Alphabet == {"v", "x", "1", "2", "."}

Strings(n) == UNION {[1..k -> Alphabet] : k \in 0..n}

\* longer tags and texts, beside every string of up to MaxLen characters
Samples ==
    { <<"1", ".", "2", ".", "1">>, <<"1", "x", "2", "x", "1">>,
      <<"v", "1", ".", "2", ".", "1">>, <<"v", "1", ".", "2", "-", "x", "1">>,
      <<"1", ".", "d", "e", "v", "2">>,
      <<"v", "1", ".", "2", " ", "v", "2", ".", "1", ".", "1">>,
      <<"$", "1", ".", "2", "x">> }

Tags == Strings(MaxLen) \cup Samples

\* the tags the lists are made of
TagPool == { <<"v", "1", ".", "2">>, <<"1", ".", "2", ".", "0">>,
             <<"v", "1">>, <<"x", "1">>, <<"1", "x", "2">> }

TagLists == UNION {[1..k -> TagPool] : k \in 0..MaxTags}

\* version strings handed to normalize_tag and find_tag_for
Versions == { <<"1", ".", "2">>, <<"1">>, <<"1", ".", "2", "-", "x", "1">>,
              <<"0", "1", ".", "2", ".", "0">>, <<"x">> }

\* lines handed to the Markdown title parser
Lines ==
    LET titles == Strings(MaxLen - 1) \cup {<<"1", ".", "2", " ", "v", "2">>}
    IN  {<<"#", " ">> \o t : t \in titles}
        \cup {<<"#", "#", " ">> \o t : t \in titles}
        \cup {<<"#">> \o t : t \in titles}
        \cup titles

\* tag formats
F_version == <<"$">> \o W_version
F_v_version == <<"v", "$">> \o W_version
F_versionx == <<"$">> \o W_version \o <<"x">>
F_v_major == <<"v", "$">> \o W_major
F_v_major_minor == <<"v", "$">> \o W_major \o <<"$">> \o W_minor
F_major_minor_patch ==
    <<"$">> \o W_major \o <<".", "$">> \o W_minor \o <<".", "$">> \o W_patch
F_v_major_prerelease == <<"v", "$">> \o W_major \o <<"$">> \o W_prerelease
F_major_devrelease == <<"$">> \o W_major \o <<"$">> \o W_devrelease
F_x_star == <<"x", "*">>
F_star_x == <<"*", ".", "x">>

\* the fields of a TagRules instance
Fields(tag_format, legacy, ignored) ==
    [tag_format |-> tag_format, legacy_tag_formats |-> legacy,
     ignored_tag_formats |-> ignored, merge_prereleases |-> FALSE]

\* The instance with its two cached properties.  They depend on the formats
\* alone, which never change, so the model computes them with the instance
\* rather than on their first use.
Cached(self) ==
    [tag_format |-> self.tag_format,
     legacy_tag_formats |-> self.legacy_tag_formats,
     ignored_tag_formats |-> self.ignored_tag_formats,
     merge_prereleases |-> self.merge_prereleases,
     version_regexes |-> version_regexes(self),
     ignored_regexes |-> ignored_regexes(self)]

TagRules(tag_format, legacy, ignored) ==
    Cached(Fields(tag_format, legacy, ignored))

\* the configurations of TagRules the model runs
Settings ==
    { TagRules(F_v_version, <<F_major_minor_patch>>, <<F_x_star>>),
      TagRules(F_major_minor_patch, <<F_v_version>>, <<>>),
      TagRules(F_v_major, <<F_v_major_minor, F_version>>, <<F_star_x, F_x_star>>),
      TagRules(F_version, <<F_v_major_minor>>, <<>>),
      TagRules(F_versionx, <<>>, <<>>),
      TagRules(F_v_major_prerelease, <<F_major_devrelease>>, <<F_x_star>>) }

(***************************************************************************)
(* The state machine: one TagRules instance and the calls made on it       *)
(***************************************************************************)
VARIABLES
    rules,      \* the TagRules instance, immutable once constructed
    pc,         \* "idle", "selecting" inside get_version_tags, "returned"
    op,         \* the last operation called
    arg,        \* its arguments
    ret,        \* what it returned or raised
    pos,        \* get_version_tags: how many tags have been classified
    selected,   \* get_version_tags: the tags kept so far
    warnings    \* the warning channel (out.warn) since the call began

vars == <<rules, pc, op, arg, ret, pos, selected, warnings>>

NoArg == [tag |-> <<>>, last |-> FALSE, warn |-> FALSE, tags |-> <<>>,
          version |-> <<>>]

Pending == [status |-> "pending", val |-> <<>>]

\* TagRules.from_settings
Init ==
    /\ \E c \in Settings, b \in BOOLEAN :
          rules = [c EXCEPT !.merge_prereleases = b]
    /\ pc = "idle"
    /\ op = "from_settings"
    /\ arg = NoArg
    /\ ret = Pending
    /\ pos = 0
    /\ selected = <<>>
    /\ warnings = <<>>

\* a call that returns at once
Call(name, a, r) ==
    /\ pc' = "returned"
    /\ op' = name
    /\ arg' = a
    /\ ret' = r
    /\ pos' = 0
    /\ selected' = <<>>
    /\ warnings' = <<>>
    /\ UNCHANGED rules

IsVersionTag ==
    /\ pc = "idle"
    /\ \E t \in Tags :
        Call("is_version_tag", [NoArg EXCEPT !.tag = t],
             Ok(is_version_tag(rules, t)))

IsIgnoredTag ==
    /\ pc = "idle"
    /\ \E t \in Tags :
        Call("is_ignored_tag", [NoArg EXCEPT !.tag = t],
             Ok(is_ignored_tag(rules, t)))

ExtractVersion ==
    /\ pc = "idle"
    /\ \E t \in Tags :
        Call("extract_version", [NoArg EXCEPT !.tag = t],
             extract_version(rules, t))

\* normalize_tag(extract_version(tag)): the version just extracted is
\* rendered with the primary format
NormalizeExtracted ==
    /\ pc = "returned"
    /\ op = "extract_version"
    /\ ret.status = "ok"
    /\ Call("normalize_extracted", arg,
            Ok(normalize_version(rules, ret.val, <<>>)))

IncludeInChangelog ==
    /\ pc = "idle"
    /\ \E t \in Tags :
        Call("include_in_changelog", [NoArg EXCEPT !.tag = t],
             include_in_changelog(rules, t))

SearchVersion ==
    /\ pc = "idle"
    /\ \E t \in Tags, last \in BOOLEAN :
        Call("search_version", [NoArg EXCEPT !.tag = t, !.last = last],
             search_version(rules, t, last))

NormalizeTag ==
    /\ pc = "idle"
    /\ \E v \in Versions :
        Call("normalize_tag", [NoArg EXCEPT !.version = v],
             normalize_tag(rules, v, <<>>))

FindTagFor ==
    /\ pc = "idle"
    /\ \E ts \in TagLists, v \in Versions :
        Call("find_tag_for", [NoArg EXCEPT !.tags = ts, !.version = v],
             find_tag_for(rules, ts, v))

ParseVersionFromTitle ==
    /\ pc = "idle"
    /\ \E l \in Lines :
        Call("parse_version_from_title", [NoArg EXCEPT !.tag = l],
             parse_version_from_title(rules, l))

\* get_version_tags is called: the comprehension starts
GetVersionTags ==
    /\ pc = "idle"
    /\ \E ts \in TagLists, warn \in BOOLEAN :
          arg' = [NoArg EXCEPT !.tags = ts, !.warn = warn]
    /\ pc' = "selecting"
    /\ op' = "get_version_tags"
    /\ ret' = Pending
    /\ pos' = 0
    /\ selected' = <<>>
    /\ warnings' = <<>>
    /\ UNCHANGED rules

\* one turn of the comprehension: _select_tag on the next tag
SelectTag ==
    /\ pc = "selecting"
    /\ pos < Len(arg.tags)
    /\ selected' = IF select_tag(rules, arg.tags[pos + 1], arg.warn).keep
                   THEN Append(selected, arg.tags[pos + 1]) ELSE selected
    /\ warnings' = warnings
                   \o select_tag(rules, arg.tags[pos + 1], arg.warn).warned
    /\ pos' = pos + 1
    /\ UNCHANGED <<rules, pc, op, arg, ret>>

\* the comprehension is exhausted: get_version_tags returns the list
ReturnVersionTags ==
    /\ pc = "selecting"
    /\ pos = Len(arg.tags)
    /\ pc' = "returned"
    /\ ret' = Ok(selected)
    /\ UNCHANGED <<rules, op, arg, pos, selected, warnings>>

Next ==
    \/ IsVersionTag
    \/ IsIgnoredTag
    \/ ExtractVersion
    \/ NormalizeExtracted
    \/ IncludeInChangelog
    \/ SearchVersion
    \/ NormalizeTag
    \/ FindTagFor
    \/ ParseVersionFromTitle
    \/ GetVersionTags
    \/ SelectTag
    \/ ReturnVersionTags

Spec == Init /\ [][Next]_vars

(***************************************************************************)
(* Properties                                                              *)
(***************************************************************************)
MinOf(S) == CHOOSE i \in S : \A j \in S : i <= j

\* the formats in precedence order, and the regex of the i-th of them
Formats == <<rules.tag_format>> \o rules.legacy_tag_formats
RegexAt(i) == re_compile(format_regex(Formats[i], FALSE))

\* the formats that fully match the tag of the call
FullHits == {i \in DOMAIN Formats : ReFullMatch(RegexAt(i), arg.tag).found}

\* what extract_version makes of the full match of the i-th format
VersionBy(i) == SchemeOf(version_string(ReFullMatch(RegexAt(i), arg.tag)))

\* the formats that match somewhere in the text of the call, the matches of
\* the i-th of them, and the one of these that `last` selects
SearchHits == {i \in DOMAIN Formats : FindIter(RegexAt(i), arg.tag, 0) # <<>>}
MatchesOf(i) == FindIter(RegexAt(i), arg.tag, 0)
SelectedOf(i) == MatchesOf(i)[IF arg.last THEN Len(MatchesOf(i)) ELSE 1]

\* formats whose placeholders keep the whole version
NonLossyFormats == {F_version, F_v_version, F_major_minor_patch}

\* C1: for a primary format without lossy placeholders and a tag it fully
\* matches, is_version_tag is true, extract_version succeeds and
\* normalize_tag(extract_version(tag)) is the tag again.
C1_RoundTrip ==
    ( /\ rules.tag_format \in NonLossyFormats
      /\ op \in {"is_version_tag", "extract_version", "normalize_extracted"}
      /\ ReFullMatch(RegexAt(1), arg.tag).found )
    => /\ op = "is_version_tag" => ret = Ok(TRUE)
       /\ op = "extract_version" => ret.status = "ok"
       /\ op = "normalize_extracted" => ret = Ok(arg.tag)

\* C2: extract_version returns the version built from the groups of the
\* first format, primary then legacy in order, that fully matches the tag,
\* and raises InvalidVersion when none does.
C2_ExtractFirstFullMatch ==
    op = "extract_version" =>
        IF FullHits = {} THEN ret.status = "InvalidVersion"
        ELSE ret = VersionBy(MinOf(FullHits))

C2_Witness ==
    /\ op = "extract_version"
    /\ ret.status = "ok"
    /\ \E i \in FullHits : i > MinOf(FullHits) /\ VersionBy(i) # ret

\* C3: get_version_tags returns the input tags that are version tags, in
\* the input order and with their duplicates, whatever warn and the ignored
\* formats are.
C3_VersionTagsFilter ==
    (op = "get_version_tags" /\ pc = "returned") =>
        ret = Ok(SelectSeq(arg.tags, LAMBDA t :
                  is_version_tag([rules EXCEPT !.ignored_tag_formats = <<>>,
                                               !.ignored_regexes = <<>>], t)))

C3_Witness ==
    /\ op = "get_version_tags"
    /\ pc = "returned"
    /\ arg.warn
    /\ Len(arg.tags) = 2
    /\ is_ignored_tag(rules, arg.tags[1])
    /\ ret = Ok(<<arg.tags[2]>>)

C3_WitnessDuplicates ==
    /\ op = "get_version_tags"
    /\ pc = "returned"
    /\ Len(arg.tags) = 2
    /\ arg.tags[1] = arg.tags[2]
    /\ ret = Ok(arg.tags)

\* C4: search_version returns a match of the first format, primary then
\* legacy in order, that matches somewhere in the text: the first of its
\* matches, or the last when last is set; the second element of the pair
\* is the text of that match.
C4_SearchPrecedence ==
    (op = "search_version" /\ ret.status = "ok") =>
        /\ SearchHits # {}
        /\ ret.val[2] = Group0(arg.tag, SelectedOf(MinOf(SearchHits)))

C4_Witness ==
    /\ op = "search_version"
    /\ ret.status = "ok"
    /\ arg.last
    /\ Len(MatchesOf(MinOf(SearchHits))) >= 2
    /\ ret.val[2] # Group0(arg.tag, MatchesOf(MinOf(SearchHits))[1])
    /\ \E i \in SearchHits : i > MinOf(SearchHits)

\* C5: include_in_changelog never raises InvalidVersion; it is false when
\* extract_version raises InvalidVersion, false when merge_prereleases is
\* set and the version is a prerelease, and true otherwise.
C5_IncludeInChangelog ==
    op = "include_in_changelog" =>
        /\ ret.status = "ok"
        /\ ret.val = ( /\ FullHits # {}
                       /\ VersionBy(MinOf(FullHits)).status = "ok"
                       /\ ~( /\ rules.merge_prereleases
                             /\ is_prerelease(VersionBy(MinOf(FullHits)).val) ) )

C5_Witness ==
    /\ op = "include_in_changelog"
    /\ ~rules.merge_prereleases
    /\ FullHits # {}
    /\ VersionBy(MinOf(FullHits)).status = "ok"
    /\ is_prerelease(VersionBy(MinOf(FullHits)).val)
    /\ ret = Ok(TRUE)

C5_WitnessMerged ==
    /\ op = "include_in_changelog"
    /\ rules.merge_prereleases
    /\ FullHits # {}
    /\ VersionBy(MinOf(FullHits)).status = "ok"
    /\ is_prerelease(VersionBy(MinOf(FullHits)).val)
    /\ ret = Ok(FALSE)

\* the tags the version of the call renders to, one for every format
Candidates ==
    {normalize_version(rules, scheme(arg.version).val, Formats[i]) :
        i \in DOMAIN Formats}

\* C6: find_tag_for returns the first tag of the input whose name is the
\* version rendered with the primary or a legacy format, whichever format
\* that is, and None when there is no such tag.
C6_FindTagFor ==
    (op = "find_tag_for" /\ scheme(arg.version).status = "ok") =>
        LET idx == {i \in DOMAIN arg.tags : arg.tags[i] \in Candidates}
        IN  IF idx = {} THEN ret = None
            ELSE ret = Ok(arg.tags[MinOf(idx)])

C6_Witness ==
    /\ op = "find_tag_for"
    /\ scheme(arg.version).status = "ok"
    /\ Len(arg.tags) = 2
    /\ arg.tags[1] # arg.tags[2]
    /\ rules.legacy_tag_formats # <<>>
    /\ arg.tags[1] = normalize_version(rules, scheme(arg.version).val,
                                       rules.legacy_tag_formats[1])
    /\ arg.tags[2] = normalize_version(rules, scheme(arg.version).val,
                                       rules.tag_format)
    /\ ret = Ok(arg.tags[1])

\* C7: in get_version_tags a tag is warned of exactly when warn is set and
\* the tag is neither a version tag nor an ignored tag; a warning does not
\* end the batch: the call returns only when every tag has been classified.
C7_Warnings ==
    op = "get_version_tags" =>
        /\ warnings = SelectSeq(SubSeq(arg.tags, 1, pos), LAMBDA t :
                          /\ arg.warn
                          /\ ~is_version_tag(rules, t)
                          /\ ~is_ignored_tag(rules, t))
        /\ pc = "returned" => pos = Len(arg.tags)

C7_Witness ==
    /\ op = "get_version_tags"
    /\ pc = "returned"
    /\ arg.warn
    /\ Len(arg.tags) = 2
    /\ warnings = <<arg.tags[1]>>
    /\ is_ignored_tag(rules, arg.tags[2])

\* whether the selected match of the winning format lacks the version group
\* and one of the major, minor and patch groups
Incomplete(i) ==
    /\ "version" \notin NamesOf(RegexAt(i))
    /\ ~({"major", "minor", "patch"} \subseteq NamesOf(RegexAt(i)))

\* C8: search_version returns None exactly when no format matches in the
\* text or the winning format has no version group and lacks a major, minor
\* or patch group, a later format matching or not; otherwise it returns a
\* pair of a version string and the matched text.
C8_SearchNone ==
    op = "search_version" =>
        /\ (ret = None) <=> (SearchHits = {} \/ Incomplete(MinOf(SearchHits)))
        /\ ret # None =>
             /\ ret.status = "ok"
             /\ Len(ret.val) = 2
             /\ ret.val[2] # <<>>

C8_Witness ==
    /\ op = "search_version"
    /\ ret = None
    /\ SearchHits # {}
    /\ \E i \in SearchHits : ~Incomplete(i)

\* every placeholder name
Keywords == {W_version, W_major, W_minor, W_patch, W_prerelease, W_devrelease}

\* C9: the compilation of a format replaces no part of a name that is
\* longer than a placeholder's: a format in which string.Template reads no
\* placeholder at all is compiled to itself.
C9_NoPartialPlaceholder ==
    op # "from_settings" =>
        \A i \in DOMAIN Formats :
            safe_substitute(Formats[i], 0, [k \in Keywords |-> <<>>]) = Formats[i]
            => format_regex(Formats[i], FALSE) = Lift(Formats[i])

\* C10: a tag whose version extract_version returns is a version tag, so
\* a tag that include_in_changelog accepts is one get_version_tags keeps;
\* both use the primary format followed by the legacy formats.
C10_ExtractedIsVersionTag ==
    /\ (op = "extract_version" /\ ret.status = "ok")
          => is_version_tag(rules, arg.tag)
    /\ (op = "include_in_changelog" /\ ret = Ok(TRUE))
          => is_version_tag(rules, arg.tag)
    /\ (op = "get_version_tags" /\ pc = "returned")
          => \A i \in DOMAIN arg.tags :
                include_in_changelog(rules, arg.tags[i]) = Ok(TRUE)
                => \E j \in DOMAIN ret.val : ret.val[j] = arg.tags[i]
    /\ rules.version_regexes = [i \in DOMAIN Formats |-> RegexAt(i)]

C10_Witness ==
    /\ op = "include_in_changelog"
    /\ ret = Ok(TRUE)
    /\ ~ReFullMatch(RegexAt(1), arg.tag).found
    /\ is_version_tag(rules, arg.tag)

=============================================================================
